---- MODULE Spec2Model ----
(***************************************************************************)
(* Model of the library-recommendation front end:                          *)
(*   - the API adapter of src/services/api.ts (parseApiJson, getBooks,     *)
(*     getBook, getReadingLists, create/update/deleteReadingList);         *)
(*   - the ConfirmSignup form (validate, handleConfirm, handleResend).     *)
(*                                                                         *)
(* JSON values are tagged records [t, v]:                                  *)
(*   null   [t |-> "null",  v |-> <<>>]                                    *)
(*   number [t |-> "num",   v |-> n]                                       *)
(*   array  [t |-> "arr",   v |-> <<e1, ..., en>>]                         *)
(*   object [t |-> "obj",   v |-> function from its keys to values]        *)
(*   string [t |-> "str",   v |-> <<x>>] when its text is the JSON         *)
(*                                encoding of the value x,                 *)
(*          [t |-> "str",   v |-> <<>>]  when its text is not JSON.        *)
(* A response body that is not JSON at all is [t |-> "invalid", v |-> <<>>]*)
(***************************************************************************)
EXTENDS Integers, Sequences, FiniteSets, TLC

VARIABLES
    response,     \* what the backend answers to the adapter's request
    request,      \* the HTTP request the adapter sent
    outcome,      \* the adapter call made: function, arguments, result
    email,        \* ConfirmSignup: useState(email)
    code,         \* ConfirmSignup: useState(code)
    errors,       \* ConfirmSignup: useState(errors)
    isLoading,    \* ConfirmSignup: useState(isLoading)
    isResending,  \* ConfirmSignup: useState(isResending)
    confirmInFlight, \* confirmSignUp calls awaited by handleConfirm
    resendInFlight,  \* resendSignUpCode calls awaited by handleResend
    location,     \* the route shown by the router
    last          \* the last step of the form: the handler run, the calls it made

apiVars  == <<response, request, outcome>>
formVars == <<email, code, errors, isLoading, isResending, confirmInFlight,
              resendInFlight, location, last>>
vars     == <<response, request, outcome, email, code, errors, isLoading, isResending,
              confirmInFlight, resendInFlight, location, last>>

-----------------------------------------------------------------------------
(* Bounds *)

\* longest list carried by a response
MaxLen == 2

-----------------------------------------------------------------------------
(* JSON values *)

Null      == [t |-> "null", v |-> <<>>]
Undefined == [t |-> "undefined", v |-> <<>>]
Invalid   == [t |-> "invalid", v |-> <<>>]
Num(n)    == [t |-> "num", v |-> n]
Arr(l)    == [t |-> "arr", v |-> l]
Obj(f)    == [t |-> "obj", v |-> f]
NotJsonText == [t |-> "str", v |-> <<>>]

Return(x) == [kind |-> "return", value |-> x]
Throw(m)  == [kind |-> "throw", value |-> [t |-> "error", v |-> m]]

JSONstringify(x) == [t |-> "str", v |-> <<x>>]

JSONparse(s) ==
    IF s.v = <<>> THEN Throw("SyntaxError") ELSE Return(s.v[1])

\* Array.isArray(data)
isArray(data) == data.t = "arr"

\* data && typeof data === 'object' && key in data
hasKey(data, key) == data.t = "obj" /\ key \in DOMAIN data.v

\* response.ok
ok(status) == status \in 200..299

\* await response.json()
responseJson(res) ==
    IF res.payload.t = "invalid" THEN Throw("SyntaxError")
    ELSE Return(res.payload)

API_BASE_URL == "API_BASE_URL"

CURRENT_USER_ID == "1"

-----------------------------------------------------------------------------
(* parseApiJson *)

\* parseApiJson returning a string body as it is, unparsed
parseApiJsonRawBody(res) ==
    LET j == responseJson(res) IN
    IF j.kind = "throw" THEN j
    ELSE LET data == j.value IN
         IF data.t = "str" THEN JSONparse(data)
         ELSE IF hasKey(data, "body") THEN Return(data.v["body"])
              ELSE Return(data)

parseApiJson(res) ==
    LET j == responseJson(res) IN
    IF j.kind = "throw" THEN j
    ELSE LET data == j.value IN
         IF data.t = "str" THEN JSONparse(data)
         ELSE IF hasKey(data, "body")
              THEN LET body == data.v["body"] IN
                   IF body.t = "str" THEN JSONparse(body) ELSE Return(body)
              ELSE Return(data)

-----------------------------------------------------------------------------
(* BOOKS *)

\* getBooks without its third branch: the books envelope is not recognised
getBooksWithoutBooks(res) ==
    IF ~ok(res.status) THEN Throw("Failed to fetch books")
    ELSE LET p == parseApiJson(res) IN
         IF p.kind = "throw" THEN p
         ELSE LET data == p.value IN
              IF isArray(data) THEN Return(data)
              ELSE IF hasKey(data, "Items") THEN Return(data.v["Items"])
              ELSE Return(Arr(<<>>))

getBooks(res) ==
    IF ~ok(res.status) THEN Throw("Failed to fetch books")
    ELSE LET p == parseApiJson(res) IN
         IF p.kind = "throw" THEN p
         ELSE LET data == p.value IN
              IF isArray(data) THEN Return(data)
              ELSE IF hasKey(data, "Items") THEN Return(data.v["Items"])
              ELSE IF hasKey(data, "books") THEN Return(data.v["books"])
              ELSE Return(Arr(<<>>))

getBook(res) ==
    IF res.status = 404 THEN Return(Null)
    ELSE IF ~ok(res.status) THEN Throw("Failed to fetch book")
    ELSE parseApiJson(res)

-----------------------------------------------------------------------------
(* READING LISTS *)

\* getReadingLists with getBooks' third branch: books in place of readingLists
getReadingListsBooksKey(res) ==
    IF ~ok(res.status) THEN Throw("Failed to fetch reading lists")
    ELSE LET p == parseApiJson(res) IN
         IF p.kind = "throw" THEN p
         ELSE LET data == p.value IN
              IF isArray(data) THEN Return(data)
              ELSE IF hasKey(data, "Items") THEN Return(data.v["Items"])
              ELSE IF hasKey(data, "books") THEN Return(data.v["books"])
              ELSE Return(Arr(<<>>))

getReadingLists(res) ==
    IF ~ok(res.status) THEN Throw("Failed to fetch reading lists")
    ELSE LET p == parseApiJson(res) IN
         IF p.kind = "throw" THEN p
         ELSE LET data == p.value IN
              IF isArray(data) THEN Return(data)
              ELSE IF hasKey(data, "Items") THEN Return(data.v["Items"])
              ELSE IF hasKey(data, "readingLists")
                   THEN Return(data.v["readingLists"])
              ELSE Return(Arr(<<>>))

\* { userId: CURRENT_USER_ID, ...list }: the caller's userId wins
listPayloadSpreadLast(list) ==
    [k \in DOMAIN list \cup {"userId"} |->
        IF k \in DOMAIN list THEN list[k] ELSE CURRENT_USER_ID]

\* { ...list, userId: CURRENT_USER_ID }
listPayload(list) ==
    [k \in DOMAIN list \cup {"userId"} |->
        IF k = "userId" THEN CURRENT_USER_ID ELSE list[k]]

\* { userId: CURRENT_USER_ID }
deletePayload == [k \in {"userId"} |-> CURRENT_USER_ID]

createReadingList(res) ==
    IF ~ok(res.status) THEN Throw("Failed to create reading list")
    ELSE parseApiJson(res)

updateReadingList(res) ==
    IF ~ok(res.status) THEN Throw("Failed to update reading list")
    ELSE parseApiJson(res)

\* deleteReadingList with === 204 in place of !== 204: it never throws
deleteReadingListNeverThrows(res) ==
    IF ~ok(res.status) /\ res.status = 204
    THEN Throw("Failed to delete reading list")
    ELSE Return(Undefined)

deleteReadingList(res) ==
    IF ~ok(res.status) /\ res.status # 204
    THEN Throw("Failed to delete reading list")
    ELSE Return(Undefined)

-----------------------------------------------------------------------------
(* The requests the adapter sends: fetch(url, {method, headers, body}) *)

NoQuery == [k \in {} |-> ""]

getBooksRequest ==
    [method |-> "GET", base |-> API_BASE_URL, path |-> <<"books">>,
     query |-> NoQuery, body |-> Undefined]

getBookRequest(id) ==
    [method |-> "GET", base |-> API_BASE_URL, path |-> <<"books", id>>,
     query |-> NoQuery, body |-> Undefined]

getReadingListsRequest ==
    [method |-> "GET", base |-> API_BASE_URL, path |-> <<"reading-lists">>,
     query |-> [k \in {"userId"} |-> CURRENT_USER_ID], body |-> Undefined]

createReadingListRequest(list) ==
    [method |-> "POST", base |-> API_BASE_URL, path |-> <<"reading-lists">>,
     query |-> NoQuery, body |-> JSONstringify(Obj(listPayload(list)))]

updateReadingListRequest(id, list) ==
    [method |-> "PUT", base |-> API_BASE_URL, path |-> <<"reading-lists", id>>,
     query |-> NoQuery, body |-> JSONstringify(Obj(listPayload(list)))]

deleteReadingListRequest(id) ==
    [method |-> "DELETE", base |-> API_BASE_URL, path |-> <<"reading-lists", id>>,
     query |-> NoQuery, body |-> JSONstringify(Obj(deletePayload))]

-----------------------------------------------------------------------------
(* The inputs of the adapter: arguments and backend responses *)

Elems == {"e1", "e2"}

Lists == UNION {[1..n -> Elems] : n \in 0..MaxLen}

FieldValues == {Arr(l) : l \in Lists}

ListKeys == {"Items", "books", "readingLists", "other"}

\* objects with at most two of the keys
Objects(keys, values) ==
    {Obj(f) : f \in UNION {[D -> values] :
                              D \in {S \in SUBSET keys : Cardinality(S) <= 2}}}

\* what a list endpoint may carry once the transport wrapping is removed
Unwrapped ==
    {Null, Num(7), NotJsonText} \cup {Arr(l) : l \in Lists}
        \cup Objects(ListKeys, FieldValues)

\* a value, or the string holding its JSON encoding
Bodies == Unwrapped \cup {JSONstringify(x) : x \in Unwrapped}

ListPayloads ==
    Bodies
        \cup {Obj([k \in {"body"} |-> b]) : b \in Bodies}
        \cup {Obj([k \in {"body", o} |-> IF k = "body" THEN Arr(l) ELSE Arr(m)]) :
                 o \in {"Items", "books"}, l \in Lists, m \in Lists}
        \cup {JSONstringify(Obj([k \in {"body"} |-> Arr(l)])) : l \in Lists}
        \cup {Invalid}

Entity == Obj([k \in {"id", "userId"} |-> IF k = "id" THEN "1" ELSE "2"])

EntityPayloads ==
    {Entity, Null, JSONstringify(Entity), NotJsonText, Invalid,
     Obj([k \in {"body"} |-> Entity]),
     Obj([k \in {"body"} |-> JSONstringify(Entity)])}

ErrorPayloads == {Invalid, Null, Obj([k \in {"message"} |-> NotJsonText])}

OkStatuses   == {200, 204, 299}
FailStatuses == {199, 300, 404, 500}

Responses(payloads) ==
    {[status |-> s, payload |-> p] : s \in OkStatuses, p \in payloads}
        \cup {[status |-> s, payload |-> p] : s \in FailStatuses, p \in ErrorPayloads}

Ids == {"1", "2"}

\* reading-list objects a caller may pass, with or without a userId of its own
ListArgs ==
    UNION {[D -> {"1", "2"}] : D \in SUBSET {"name", "userId"}}

-----------------------------------------------------------------------------
(* Adapter calls: one action per exported function.  A behaviour makes    *)
(* one call against the response the backend has ready.                    *)

NoCall == [fn |-> "none", arg |-> <<>>, result |-> Return(Undefined)]

NoRequest ==
    [method |-> "none", base |-> API_BASE_URL, path |-> <<>>,
     query |-> NoQuery, body |-> Undefined]

GetBooks ==
    /\ outcome = NoCall
    /\ response \in Responses(ListPayloads)
    /\ request' = getBooksRequest
    /\ outcome' = [fn |-> "getBooks", arg |-> <<>>, result |-> getBooks(response)]
    /\ UNCHANGED <<response, formVars>>

GetBook ==
    \E id \in Ids :
        /\ outcome = NoCall
        /\ response \in Responses(EntityPayloads)
        /\ request' = getBookRequest(id)
        /\ outcome' = [fn |-> "getBook", arg |-> <<id>>, result |-> getBook(response)]
        /\ UNCHANGED <<response, formVars>>

GetReadingLists ==
    /\ outcome = NoCall
    /\ response \in Responses(ListPayloads)
    /\ request' = getReadingListsRequest
    /\ outcome' = [fn |-> "getReadingLists", arg |-> <<>>,
                   result |-> getReadingLists(response)]
    /\ UNCHANGED <<response, formVars>>

CreateReadingList ==
    \E list \in ListArgs :
        /\ outcome = NoCall
        /\ response \in Responses(EntityPayloads)
        /\ request' = createReadingListRequest(list)
        /\ outcome' = [fn |-> "createReadingList", arg |-> <<list>>,
                       result |-> createReadingList(response)]
        /\ UNCHANGED <<response, formVars>>

UpdateReadingList ==
    \E id \in Ids, list \in ListArgs :
        /\ outcome = NoCall
        /\ response \in Responses(EntityPayloads)
        /\ request' = updateReadingListRequest(id, list)
        /\ outcome' = [fn |-> "updateReadingList", arg |-> <<id, list>>,
                       result |-> updateReadingList(response)]
        /\ UNCHANGED <<response, formVars>>

DeleteReadingList ==
    \E id \in Ids :
        /\ outcome = NoCall
        /\ response \in Responses(EntityPayloads)
        /\ request' = deleteReadingListRequest(id)
        /\ outcome' = [fn |-> "deleteReadingList", arg |-> <<id>>,
                       result |-> deleteReadingList(response)]
        /\ UNCHANGED <<response, formVars>>

-----------------------------------------------------------------------------
(* ConfirmSignup: field values and validation.  A string is the sequence   *)
(* of its characters.                                                      *)

Emails ==
    {<<>>,
     <<"a">>,
     <<"a", "@", "a">>,
     <<"@", "a", ".", "a">>,
     <<"a", "@", "a", ".">>,
     <<"a", "@", "@", "a", ".", "a">>,
     <<"a", "@", "a", ".", "a">>,
     <<"a", ".", "a", "@", "a", ".", "a">>}

Codes == {<<>>, <<"1">>, <<"1", "2">>}

\* @/utils/validation validateRequired: the value is not empty
validateRequired(value) == Len(value) > 0

\* @/utils/validation validateEmail: local@domain.tld, a single "@", no blanks
validateEmail(value) ==
    \E i \in 1..Len(value), j \in 1..Len(value) :
        /\ value[i] = "@"
        /\ \A k \in 1..Len(value) : (value[k] = "@" => k = i) /\ value[k] # " "
        /\ value[j] = "."
        /\ 1 < i /\ i + 1 < j /\ j < Len(value)

EmailRequired  == "Email is required"
EmailInvalid   == "Invalid email format"
CodeRequired   == "Verification code is required"

NoErrors == [k \in {} |-> ""]

\* validate() without its check of the code
newErrorsEmailOnly(e, c) ==
    LET emailKey == IF ~validateRequired(e) \/ ~validateEmail(e)
                    THEN {"email"} ELSE {}
    IN  [k \in emailKey |->
            IF ~validateRequired(e) THEN EmailRequired ELSE EmailInvalid]

\* validate(): the newErrors object it builds
newErrors(e, c) ==
    LET emailKey == IF ~validateRequired(e) \/ ~validateEmail(e)
                    THEN {"email"} ELSE {}
        codeKey  == IF ~validateRequired(c) THEN {"code"} ELSE {}
    IN  [k \in emailKey \cup codeKey |->
            IF k = "email"
            THEN IF ~validateRequired(e) THEN EmailRequired ELSE EmailInvalid
            ELSE CodeRequired]

\* validate(): Object.keys(newErrors).length === 0
validate(e, c) == DOMAIN newErrors(e, c) = {}

\* handleResend checking the format before the presence of the email
resendErrorsFormatFirst(e) ==
    IF ~validateEmail(e) THEN [k \in {"email"} |-> EmailInvalid]
    ELSE IF ~validateRequired(e) THEN [k \in {"email"} |-> EmailRequired]
    ELSE NoErrors

\* handleResend: the errors it sets before returning early, NoErrors when it goes on
resendErrors(e) ==
    IF ~validateRequired(e) THEN [k \in {"email"} |-> EmailRequired]
    ELSE IF ~validateEmail(e) THEN [k \in {"email"} |-> EmailInvalid]
    ELSE NoErrors

-----------------------------------------------------------------------------
(* ConfirmSignup: the component *)

ConfirmRoute == "/confirm-signup"
LoginRoute   == "/login"

mounted == location = ConfirmRoute

Step(op, calls) == [op |-> op, calls |-> calls]

ReactState ==
    [email |-> email, code |-> code, errors |-> errors,
     isLoading |-> isLoading, isResending |-> isResending]

\* handleConfirm resetting isLoading in its try block, not in finally
confirmSettledNoFinally(s, resolved) ==
    IF resolved THEN [s EXCEPT !.isLoading = FALSE] ELSE s

\* handleConfirm after its await: finally { setIsLoading(false) }
confirmSettled(s, resolved) == [s EXCEPT !.isLoading = FALSE]

\* handleResend resetting confirm's flag: setIsLoading(false) in its finally
resendSettledWrongFlag(s, resolved) == [s EXCEPT !.isLoading = FALSE]

\* handleResend after its await: finally { setIsResending(false) }
resendSettled(s, resolved) == [s EXCEPT !.isResending = FALSE]

\* handleConfirm navigating in finally, whether confirmSignUp succeeded or not
confirmEffectsNavigateAlways(resolved) ==
    IF resolved
    THEN <<"confirmSignUp:resolved", "showSuccess:verified", "navigate:/login">>
    ELSE <<"confirmSignUp:rejected", "handleApiError", "navigate:/login">>

\* the external calls handleConfirm makes once confirmSignUp settles
confirmEffects(resolved) ==
    IF resolved
    THEN <<"confirmSignUp:resolved", "showSuccess:verified", "navigate:/login">>
    ELSE <<"confirmSignUp:rejected", "handleApiError">>

\* the external calls handleResend makes once resendSignUpCode settles
resendEffects(resolved) ==
    IF resolved
    THEN <<"resendSignUpCode:resolved", "showSuccess:resent">>
    ELSE <<"resendSignUpCode:rejected", "handleApiError">>

\* the route after the calls: navigate('/login') changes it
routeAfter(calls, route) ==
    IF \E i \in 1..Len(calls) : calls[i] = "navigate:/login"
    THEN LoginRoute ELSE route

\* handleConfirm up to its await: whether it goes on to call confirmSignUp
confirmProceeds(e, c) == validate(e, c)

\* handleResend up to its await: whether it goes on to call resendSignUpCode
resendProceeds(e) == validateRequired(e) /\ validateEmail(e)

SetEmail ==
    \E e \in Emails :
        /\ mounted
        /\ email' = e
        /\ last' = Step("setEmail", <<>>)
        /\ UNCHANGED <<code, errors, isLoading, isResending, confirmInFlight,
                       resendInFlight, location, apiVars>>

SetCode ==
    \E c \in Codes :
        /\ mounted
        /\ code' = c
        /\ last' = Step("setCode", <<>>)
        /\ UNCHANGED <<email, errors, isLoading, isResending, confirmInFlight,
                       resendInFlight, location, apiVars>>

\* the submit button is disabled while isLoading
HandleConfirm ==
    /\ mounted
    /\ ~isLoading
    /\ errors' = newErrors(email, code)
    /\ IF ~confirmProceeds(email, code)
       THEN /\ last' = Step("handleConfirm", <<>>)
            /\ UNCHANGED <<isLoading, confirmInFlight>>
       ELSE /\ isLoading' = TRUE
            /\ confirmInFlight' = confirmInFlight + 1
            /\ last' = Step("handleConfirm", <<"confirmSignUp">>)
    /\ UNCHANGED <<email, code, isResending, resendInFlight, location, apiVars>>

ConfirmSettle ==
    \E resolved \in BOOLEAN :
        /\ confirmInFlight > 0
        /\ confirmInFlight' = confirmInFlight - 1
        /\ last' = Step("confirmSettle", confirmEffects(resolved))
        /\ location' = routeAfter(confirmEffects(resolved), location)
        /\ LET s == confirmSettled(ReactState, resolved) IN
               /\ email' = s.email
               /\ code' = s.code
               /\ errors' = s.errors
               /\ isLoading' = s.isLoading
               /\ isResending' = s.isResending
        /\ UNCHANGED <<resendInFlight, apiVars>>

\* the resend button is disabled while isResending
HandleResend ==
    /\ mounted
    /\ ~isResending
    /\ IF ~resendProceeds(email)
       THEN /\ errors' = resendErrors(email)
            /\ last' = Step("handleResend", <<>>)
            /\ UNCHANGED <<isResending, resendInFlight>>
       ELSE /\ isResending' = TRUE
            /\ resendInFlight' = resendInFlight + 1
            /\ last' = Step("handleResend", <<"resendSignUpCode">>)
            /\ UNCHANGED errors
    /\ UNCHANGED <<email, code, isLoading, confirmInFlight, location, apiVars>>

ResendSettle ==
    \E resolved \in BOOLEAN :
        /\ resendInFlight > 0
        /\ resendInFlight' = resendInFlight - 1
        /\ last' = Step("resendSettle", resendEffects(resolved))
        /\ location' = routeAfter(resendEffects(resolved), location)
        /\ LET s == resendSettled(ReactState, resolved) IN
               /\ email' = s.email
               /\ code' = s.code
               /\ errors' = s.errors
               /\ isLoading' = s.isLoading
               /\ isResending' = s.isResending
        /\ UNCHANGED <<confirmInFlight, apiVars>>

-----------------------------------------------------------------------------
(* Specifications *)

\* the response the backend has ready is any of those the endpoints may give
InitApi ==
    /\ response \in Responses(ListPayloads \cup EntityPayloads)
    /\ request = NoRequest
    /\ outcome = NoCall

\* no adapter call is under way
IdleApi ==
    /\ response = [status |-> 200, payload |-> Arr(<<>>)]
    /\ request = NoRequest
    /\ outcome = NoCall

\* useState initial values; the email may come from the router's location state
InitForm ==
    /\ email \in Emails
    /\ code = <<>>
    /\ errors = NoErrors
    /\ isLoading = FALSE
    /\ isResending = FALSE
    /\ confirmInFlight = 0
    /\ resendInFlight = 0
    /\ location = ConfirmRoute
    /\ last = Step("mount", <<>>)

Init == InitApi /\ InitForm

NextApi ==
    \/ GetBooks
    \/ GetBook
    \/ GetReadingLists
    \/ CreateReadingList
    \/ UpdateReadingList
    \/ DeleteReadingList

NextForm ==
    \/ SetEmail
    \/ SetCode
    \/ HandleConfirm
    \/ ConfirmSettle
    \/ HandleResend
    \/ ResendSettle

Next == NextApi \/ NextForm

\* the whole front end
Spec == Init /\ [][Next]_vars

\* the API adapter alone, the form left as mounted
ApiInit == InitApi /\ InitForm /\ email = <<>>

ApiSpec == ApiInit /\ [][NextApi]_vars

\* the confirmation form alone, the adapter idle
FormInit == IdleApi /\ InitForm

FormSpec == FormInit /\ [][NextForm]_vars

\* the confirmation form, with every identity call settling
FairFormSpec ==
    FormInit /\ [][NextForm]_vars /\ WF_vars(ConfirmSettle) /\ WF_vars(ResendSettle)

-----------------------------------------------------------------------------
(* Claims about the API adapter (ApiSpec) *)

called(fn) == outcome.fn = fn

payload == response.payload

sentBody == request.body.v[1].v

\* the payloads that decode: JSON, with JSON in the string or body string that
\* wraps it
decodable(p) ==
    /\ p.t # "invalid"
    /\ p.t = "str" => p.v # <<>>
    /\ (hasKey(p, "body") /\ p.v["body"].t = "str") => p.v["body"].v # <<>>

\* the payload with its transport wrapping removed: a JSON-encoded string
\* parsed, a body field replaced by its (parsed) content
unwrapped(p) ==
    IF p.t = "str" THEN p.v[1]
    ELSE IF hasKey(p, "body")
         THEN IF p.v["body"].t = "str" THEN p.v["body"].v[1] ELSE p.v["body"]
         ELSE p

listOrEnvelope(x) == isArray(x) \/ hasKey(x, "Items") \/ hasKey(x, "books")

data == unwrapped(payload)

\* C1 as stated: getBooks on a 2xx response returns the decoded payload when
\* it is a bare array, its Items when it is an object with an Items field, and
\* its books when it is an object with a books field.
C1_AsStated ==
    (called("getBooks") /\ ok(response.status) /\ decodable(payload)) =>
        /\ isArray(data) => outcome.result = Return(data)
        /\ hasKey(data, "Items") => outcome.result = Return(data.v["Items"])
        /\ hasKey(data, "books") => outcome.result = Return(data.v["books"])

\* C1 amended: getBooks on a 2xx response returns the decoded payload when it
\* is a bare array, its Items when it is an object with an Items field, and
\* its books when it is an object with a books field and no Items field.
C1_Envelopes ==
    (called("getBooks") /\ ok(response.status) /\ decodable(payload)) =>
        /\ isArray(data) => outcome.result = Return(data)
        /\ hasKey(data, "Items") => outcome.result = Return(data.v["Items"])
        /\ (hasKey(data, "books") /\ ~hasKey(data, "Items")) =>
               outcome.result = Return(data.v["books"])

C1_Witness ==
    /\ called("getBooks")
    /\ response.status = 200
    /\ payload = Obj([k \in {"books", "other"} |->
                        IF k = "books" THEN Arr(<<"e2", "e1">>) ELSE Arr(<<>>)])
    /\ outcome.result = Return(Arr(<<"e2", "e1">>))

HttpFunctions ==
    {"getBooks", "getBook", "getReadingLists", "createReadingList",
     "updateReadingList", "deleteReadingList"}

\* the error each function documents for a failed response
FailureOf(fn) ==
    CASE fn = "getBooks"          -> Throw("Failed to fetch books")
      [] fn = "getBook"           -> Throw("Failed to fetch book")
      [] fn = "getReadingLists"   -> Throw("Failed to fetch reading lists")
      [] fn = "createReadingList" -> Throw("Failed to create reading list")
      [] fn = "updateReadingList" -> Throw("Failed to update reading list")
      [] fn = "deleteReadingList" -> Throw("Failed to delete reading list")

\* C2 as stated: every HTTP-backed function throws on every status outside
\* 200-299 and never returns normally; on a 2xx status it does not throw that
\* error.
C2_AsStated ==
    (outcome.fn \in HttpFunctions) =>
        /\ ~ok(response.status) => outcome.result = FailureOf(outcome.fn)
        /\ ok(response.status) => outcome.result # FailureOf(outcome.fn)

\* C2 amended: every HTTP-backed function throws its error on every status
\* outside 200-299, except getBook on 404, which returns null; on a 2xx status
\* it does not throw that error.
C2_FailedResponses ==
    (outcome.fn \in HttpFunctions) =>
        /\ (~ok(response.status) /\ ~(called("getBook") /\ response.status = 404))
               => outcome.result = FailureOf(outcome.fn)
        /\ (called("getBook") /\ response.status = 404)
               => outcome.result = Return(Null)
        /\ ok(response.status) => outcome.result # FailureOf(outcome.fn)

C2_Witness ==
    /\ called("deleteReadingList")
    /\ response.status = 500
    /\ outcome.result = Throw("Failed to delete reading list")

\* C5 as stated: getReadingLists on a 2xx response yields the contained list
\* for a bare array, an object with an Items field and an object with a books
\* field.
C5_AsStated ==
    (called("getReadingLists") /\ ok(response.status) /\ decodable(payload)) =>
        /\ isArray(data) => outcome.result = Return(data)
        /\ hasKey(data, "Items") => outcome.result = Return(data.v["Items"])
        /\ (hasKey(data, "books") /\ ~hasKey(data, "Items")) =>
               outcome.result = Return(data.v["books"])

\* C5 amended: getReadingLists on a 2xx response yields the contained list for
\* a bare array, an object with an Items field, and an object with a
\* readingLists field and no Items field; an object with a books field and
\* neither of the other two yields the empty list.
C5_Envelopes ==
    (called("getReadingLists") /\ ok(response.status) /\ decodable(payload)) =>
        /\ isArray(data) => outcome.result = Return(data)
        /\ hasKey(data, "Items") => outcome.result = Return(data.v["Items"])
        /\ (hasKey(data, "readingLists") /\ ~hasKey(data, "Items")) =>
               outcome.result = Return(data.v["readingLists"])
        /\ (hasKey(data, "books") /\ ~hasKey(data, "Items")
                /\ ~hasKey(data, "readingLists")) =>
               outcome.result = Return(Arr(<<>>))

C5_Witness ==
    /\ called("getReadingLists")
    /\ response.status = 200
    /\ payload = Obj([k \in {"readingLists"} |-> Arr(<<"e1", "e2">>)])
    /\ outcome.result = Return(Arr(<<"e1", "e2">>))

\* C9: the body sent by createReadingList and updateReadingList has userId "1"
\* and every other field of the caller's list unchanged; the body sent by
\* deleteReadingList is exactly {userId: "1"}; getReadingLists queries
\* userId=1.
C9_FixedUser ==
    /\ (called("createReadingList") \/ called("updateReadingList")) =>
           LET list == outcome.arg[Len(outcome.arg)] IN
               /\ DOMAIN sentBody = DOMAIN list \cup {"userId"}
               /\ sentBody["userId"] = "1"
               /\ \A k \in DOMAIN list \ {"userId"} : sentBody[k] = list[k]
    /\ called("deleteReadingList") =>
           (DOMAIN sentBody = {"userId"} /\ sentBody["userId"] = "1")
    /\ called("getReadingLists") =>
           (DOMAIN request.query = {"userId"} /\ request.query["userId"] = "1")

C9_Witness ==
    /\ called("updateReadingList")
    /\ outcome.arg[2] = [k \in {"name", "userId"} |-> "2"]
    /\ sentBody = [k \in {"name", "userId"} |-> IF k = "name" THEN "2" ELSE "1"]

\* C10: parseApiJson yields the parsed string for a JSON-encoded string, the
\* body (parsed when a string) for an object with a body field, and anything
\* else unchanged; so getBooks returns for a wrapped list or envelope what it
\* returns for the same value arriving directly, and the empty list for a
\* payload that unwraps to neither an array nor an object with Items or books.
C10_OneLayer ==
    (ok(response.status) /\ decodable(payload)) =>
        /\ (called("getBook") \/ called("createReadingList")
                \/ called("updateReadingList")) =>
               outcome.result = Return(data)
        /\ (called("getBooks") /\ listOrEnvelope(data) /\ ~hasKey(data, "body")) =>
               outcome.result = getBooks([status |-> 200, payload |-> data])
        /\ (called("getBooks") /\ ~listOrEnvelope(data)) =>
               outcome.result = Return(Arr(<<>>))

C10_Witness ==
    /\ called("getBooks")
    /\ payload = Obj([k \in {"body"} |->
                        JSONstringify(Obj([j \in {"Items"} |-> Arr(<<"e1", "e2">>)]))])
    /\ outcome.result = Return(Arr(<<"e1", "e2">>))

-----------------------------------------------------------------------------
(* Claims about the confirmation form (FormSpec, FairFormSpec) *)

ran(op) == last.op = op

made(call) == \E i \in 1..Len(last.calls) : last.calls[i] = call

emailEmpty     == email = <<>>
emailMalformed == email # <<>> /\ ~validateEmail(email)
codeEmpty      == code = <<>>

hasError(field, message) == field \in DOMAIN errors /\ errors[field] = message

\* C3: a confirm submitted with an empty email, a malformed email or an empty
\* code calls no confirmSignUp, leaves isLoading unset and the route
\* unchanged, and leaves in errors the message of each failing field;
\* confirmSignUp is called only with an empty errors map.
C3_ConfirmRejected ==
    ran("handleConfirm") =>
        /\ (emailEmpty \/ emailMalformed \/ codeEmpty) =>
               /\ last.calls = <<>>
               /\ confirmInFlight = 0
               /\ ~isLoading
               /\ location = ConfirmRoute
        /\ emailEmpty => hasError("email", "Email is required")
        /\ emailMalformed => hasError("email", "Invalid email format")
        /\ codeEmpty => hasError("code", "Verification code is required")
        /\ made("confirmSignUp") => DOMAIN errors = {}

C3_Witness ==
    /\ ran("handleConfirm")
    /\ email = <<"a", "@", "a">>
    /\ code = <<>>
    /\ last.calls = <<>>
    /\ hasError("email", "Invalid email format")
    /\ hasError("code", "Verification code is required")

\* C4: when confirmSignUp succeeds the form shows the success message and then
\* navigates to /login; when it fails the error handler runs and neither the
\* message nor the navigation happens; the route becomes /login only in a step
\* where confirmSignUp has succeeded.
C4_ConfirmOutcome ==
    /\ [](ran("confirmSettle") =>
             \/ /\ last.calls = <<"confirmSignUp:resolved", "showSuccess:verified",
                                  "navigate:/login">>
                /\ location = LoginRoute
             \/ /\ last.calls = <<"confirmSignUp:rejected", "handleApiError">>
                /\ location = ConfirmRoute)
    /\ [][(location' = LoginRoute /\ location # LoginRoute) =>
             (last'.op = "confirmSettle"
                 /\ last'.calls[1] = "confirmSignUp:resolved")]_vars

C4_Witness ==
    /\ ran("confirmSettle")
    /\ made("showSuccess:verified")
    /\ location = LoginRoute
    /\ ~isLoading

\* C6: resendSignUpCode is called exactly when the email is non-empty and
\* well-formed, whatever the code field holds; otherwise isResending stays
\* unset and the email error is the message confirm's validation gives for
\* that email.
C6_ResendValidation ==
    ran("handleResend") =>
        /\ made("resendSignUpCode") <=> (~emailEmpty /\ ~emailMalformed)
        /\ ~made("resendSignUpCode") =>
               /\ last.calls = <<>>
               /\ resendInFlight = 0
               /\ ~isResending
               /\ "email" \in DOMAIN newErrors(email, code)
               /\ hasError("email", newErrors(email, code)["email"])
        /\ emailEmpty => hasError("email", "Email is required")
        /\ emailMalformed => hasError("email", "Invalid email format")

C6_Witness ==
    /\ ran("handleResend")
    /\ made("resendSignUpCode")
    /\ code = <<>>
    /\ isResending

changed(s, t) == {f \in DOMAIN s : s[f] # t[f]}

\* C7: with a confirm and a resend both in flight, what confirm writes when it
\* settles is isLoading alone and what resend writes is isResending alone, and
\* email, code, errors, isLoading and isResending end the same in either order
\* of settling.
C7_DisjointWrites ==
    (confirmInFlight > 0 /\ resendInFlight > 0) =>
        \A c \in BOOLEAN, r \in BOOLEAN :
            /\ changed(ReactState, confirmSettled(ReactState, c)) = {"isLoading"}
            /\ changed(ReactState, resendSettled(ReactState, r)) = {"isResending"}
            /\ resendSettled(confirmSettled(ReactState, c), r)
                   = confirmSettled(resendSettled(ReactState, r), c)

C7_Witness ==
    /\ confirmInFlight > 0
    /\ resendInFlight > 0
    /\ isLoading
    /\ isResending
    /\ ran("handleResend")

\* C8: isLoading is true exactly while a confirmSignUp call is in flight and
\* isResending exactly while a resendSignUpCode call is in flight, and each
\* flag, once set, is reset when its call settles, resolved or rejected.
C8_BusyFlags ==
    /\ [](isLoading <=> confirmInFlight > 0)
    /\ [](isResending <=> resendInFlight > 0)
    /\ (isLoading ~> ~isLoading)
    /\ (isResending ~> ~isResending)

C8_Witness ==
    /\ ran("confirmSettle")
    /\ made("confirmSignUp:rejected")
    /\ ~isLoading
    /\ confirmInFlight = 0
    /\ isResending

====
